---- MODULE Spec2Model ----
(***************************************************************************)
(* proto2gql: conversion of a protobufjs descriptor tree into GraphQL SDL  *)
(* text (protobufToGraphQL and its emitters), and the concurrent per-file  *)
(* load / convert / stat / mkdir / writeFile run of proto2gql.             *)
(*                                                                         *)
(* Text is modelled by TLA+ strings, built with the same concatenations    *)
(* as the template literals of src/src/index.ts.                           *)
(***************************************************************************)
EXTENDS Integers, Sequences, FiniteSets, TLC

VARIABLES
    root,       \* the protobuf.Root handed to protobufToGraphQL (field names are mutated in place)
    results,    \* the outcomes of the successive protobufToGraphQL(root) calls, oldest first
    files,      \* proto2gql: protoFiles, each with the root that root.load builds for it
    pc,         \* proto2gql: position of each file's async callback
    dirExists,  \* proto2gql: whether outputDir exists on disk
    written,    \* proto2gql: the output files on disk, each with the file task whose schema it holds
    run         \* proto2gql: "idle" | "start" | "running" | "converted" | "exit1"

vars == <<root, results, files, pc, dirExists, written, run>>

(***************************************************************************)
(* Bounds of the model.                                                    *)
(***************************************************************************)
MaxCalls == 2
MaxFields == 2
MaxMethods == 2
MaxTop == 2
MaxNested == 2
MaxFiles == 2

(***************************************************************************)
(* JavaScript string and array helpers.                                    *)
(***************************************************************************)
Undefined == [undefined |-> TRUE]

StartsWith(s, p) == Len(s) >= Len(p) /\ SubSeq(s, 1, Len(p)) = p

EndsWith(s, p) == Len(s) >= Len(p) /\ SubSeq(s, Len(s) - Len(p) + 1, Len(s)) = p

Slice1(s) == SubSeq(s, 2, Len(s))

RECURSIVE Join(_, _)
Join(arr, sep) ==
    IF Len(arr) = 0 THEN ""
    ELSE IF Len(arr) = 1 THEN arr[1]
    ELSE arr[1] \o sep \o Join(Tail(arr), sep)

IsWhitespace(c) == c \in {" ", "\t", "\n", "\r"}

\* positions of s holding a character that is not whitespace
InkPositions(s) == {i \in 1..Len(s) : ~IsWhitespace(SubSeq(s, i, i))}

Min(S) == CHOOSE x \in S : \A y \in S : x <= y

Max(S) == CHOOSE x \in S : \A y \in S : y <= x

Trim(s) ==
    LET ink == InkPositions(s)
    IN  IF ink = {} THEN "" ELSE SubSeq(s, Min(ink), Max(ink))

MapSeq(arr, F(_)) == [i \in 1..Len(arr) |-> F(arr[i])]

(***************************************************************************)
(* UTIL tables.                                                            *)
(***************************************************************************)
typeMappingKeys ==
    {"double", "float", "int32", "int64", "uint32", "uint64", "sint32", "sint64",
     "fixed32", "fixed64", "sfixed32", "sfixed64", "bool", "string", "bytes", "map"}

typeMapping(t) ==
    CASE t \in {"double", "float"} -> "Float"
      [] t \in {"int32", "int64", "uint32", "uint64", "sint32", "sint64",
                "fixed32", "fixed64", "sfixed32", "sfixed64"} -> "Int"
      [] t = "bool" -> "Boolean"
      [] t \in {"string", "bytes"} -> "String"
      [] t = "map" -> "JSON"

\* typeMapping[t] || t
TypeMappingOr(t) == IF t \in typeMappingKeys THEN typeMapping(t) ELSE t

googleTypeKeys ==
    {"google.protobuf.StringValue", "google.protobuf.DoubleValue",
     "google.protobuf.Int32Value", "google.protobuf.Int64Value",
     "google.protobuf.UInt32Value", "google.protobuf.UInt64Value",
     "google.protobuf.BoolValue", "google.protobuf.BytesValue",
     "google.protobuf.FloatValue", "google.protobuf.Empty",
     "google.protobuf.Any", "google.protobuf.Timestamp"}

googleTypeMapping(t) ==
    CASE t = "google.protobuf.StringValue" ->
            [typeName |-> "StringValue", value |-> "{\n\tvalue: String\n}"]
      [] t = "google.protobuf.DoubleValue" ->
            [typeName |-> "DoubleValue", value |-> "{\n\tvalue: Float\n}"]
      [] t = "google.protobuf.Int32Value" ->
            [typeName |-> "Int32Value", value |-> "{\n\tvalue: Int\n}"]
      [] t = "google.protobuf.Int64Value" ->
            [typeName |-> "Int64Value", value |-> "{\n\tvalue: Int\n}"]
      [] t = "google.protobuf.UInt32Value" ->
            [typeName |-> "UInt32Value", value |-> "{\n\tvalue: Int\n}"]
      [] t = "google.protobuf.UInt64Value" ->
            [typeName |-> "UInt64Value", value |-> "{\n\tvalue: Int\n}"]
      [] t = "google.protobuf.BoolValue" ->
            [typeName |-> "BoolValue", value |-> "{\n\tvalue: Boolean\n}"]
      [] t = "google.protobuf.BytesValue" ->
            [typeName |-> "BytesValue", value |-> "{\n\tvalue: String\n}"]
      [] t = "google.protobuf.FloatValue" ->
            [typeName |-> "FloatValue", value |-> "{\n\tvalue: Float\n}"]
      [] t = "google.protobuf.Empty" ->
            [typeName |-> "Empty", value |-> "{}"]
      [] t = "google.protobuf.Any" ->
            [typeName |-> "Any", value |-> "{\n\tvalue: JSON\n}"]
      [] t = "google.protobuf.Timestamp" ->
            [typeName |-> "Timestamp", value |-> "{\n\tvalue: String\n}"]

resourceVerbs == [query |-> <<"Get", "List">>, mutation |-> <<"Create", "Update", "Delete">>]

graphqlExtension == ".graphql"

(***************************************************************************)
(* Descriptor nodes.  instanceof follows protobufjs's class hierarchy:     *)
(* Type and Service extend Namespace, Enum does not.                       *)
(***************************************************************************)
IsEnum(obj) == obj.kind = "Enum"

IsService(obj) == obj.kind = "Service"

IsType(obj) == obj.kind = "Type"

IsNamespace(obj) == obj.kind \in {"Namespace", "Type", "Service"}

(***************************************************************************)
(* protobufEnumToGraphQL                                                   *)
(***************************************************************************)
protobufEnumToGraphQL(obj) ==
    "enum " \o obj.name \o " {\n"
        \o Join(MapSeq(obj.values, LAMBDA value : "\t" \o value), "\n")
        \o "\n}"

(***************************************************************************)
(* protobufServiceToGraphQL                                                *)
(***************************************************************************)
SomeVerb(verbs, name) == \E i \in 1..Len(verbs) : StartsWith(name, verbs[i])

gqlFieldOf(method) ==
    "  " \o method.name \o "(" \o method.requestType \o ": " \o method.requestType
         \o "): " \o method.responseType

\* the if-chain with its final else pushing to queries
ClassifyDefaultQuery(method) ==
    IF SomeVerb(resourceVerbs.query, method.name) THEN "query"
    ELSE IF SomeVerb(resourceVerbs.mutation, method.name) THEN "mutation"
    ELSE "query"

\* "query" when the first test of the if-chain succeeds; both other branches push to mutations
Classify(method) ==
    IF SomeVerb(resourceVerbs.query, method.name) THEN "query"
    ELSE IF SomeVerb(resourceVerbs.mutation, method.name) THEN "mutation"
    ELSE "mutation"

protobufServiceToGraphQL(service) ==
    LET queries ==
            MapSeq(SelectSeq(service.methods, LAMBDA m : Classify(m) = "query"), gqlFieldOf)
        mutations ==
            MapSeq(SelectSeq(service.methods, LAMBDA m : Classify(m) = "mutation"), gqlFieldOf)
        queryType ==
            IF Len(queries) > 0 THEN "type Query {\n" \o Join(queries, "\n") \o "\n}" ELSE ""
        mutationType ==
            IF Len(mutations) > 0
            THEN "type Mutation {\n" \o Join(mutations, "\n") \o "\n}"
            ELSE ""
    IN  Join(SelectSeq(<<queryType, mutationType>>, LAMBDA s : s # ""), "\n\n")

(***************************************************************************)
(* protobufToGraphQL: the per-field callback of the two fields.map loops   *)
(* (package branch and top-level message branch are the same code).        *)
(* acc carries addedGoogleTypes, packageTypes, the lines returned so far   *)
(* and the fields with value.name as mutated so far.                       *)
(***************************************************************************)
\* googleField && !addedGoogleTypes.has(value.type)
FirstGoogleUse(value, addedGoogleTypes) ==
    value.type \in googleTypeKeys /\ value.type \notin addedGoogleTypes

\* gqlType after the google substitution and after the map override
ResolveGqlType(value, addedGoogleTypes) ==
    LET gqlType == IF FirstGoogleUse(value, addedGoogleTypes)
                   THEN googleTypeMapping(value.type).typeName
                   ELSE TypeMappingOr(value.type)
    IN  IF value.map THEN "JSON" ELSE gqlType

\* const isArray = value.repeated ? "[" + gqlType + "]" : gqlType
IsArrayText(value, gqlType) == IF value.repeated THEN "[" \o gqlType \o "]" ELSE gqlType

\* if (value.name.startsWith(".")) value.name = value.name.slice(1)
StripName(name) == IF StartsWith(name, ".") THEN Slice1(name) ELSE name

\* what one call of the callback leaves behind, given the name it emits
FieldStepWith(acc, value, first, name) ==
    [addedGoogleTypes |->
        IF first THEN acc.addedGoogleTypes \cup {value.type} ELSE acc.addedGoogleTypes,
     packageTypes |->
        IF first
        THEN <<"type " \o googleTypeMapping(value.type).typeName \o " "
                    \o googleTypeMapping(value.type).value>>
                \o acc.packageTypes
        ELSE acc.packageTypes,
     lines |-> Append(acc.lines,
                      "\t" \o name \o ": "
                        \o IsArrayText(value, ResolveGqlType(value, acc.addedGoogleTypes))),
     fields |-> Append(acc.fields, [value EXCEPT !.name = name])]

FieldStep(acc, value) ==
    FieldStepWith(acc, value, FirstGoogleUse(value, acc.addedGoogleTypes),
                  StripName(value.name))

RECURSIVE FieldsMap(_, _, _)
FieldsMap(fields, i, acc) ==
    IF i > Len(fields) THEN acc ELSE FieldsMap(fields, i + 1, FieldStep(acc, fields[i]))

(***************************************************************************)
(* oneofsArray.map: type.fields is keyed by the name each field was added  *)
(* under (key); oneof.fieldsArray holds the field objects themselves (here *)
(* their positions in fields), whose name the loop above has rewritten.    *)
(***************************************************************************)
\* obj.fields[k]: the position of the field stored under key k, 0 when undefined
FieldAt(fields, k) ==
    IF \E i \in 1..Len(fields) : fields[i].key = k
    THEN CHOOSE i \in 1..Len(fields) : fields[i].key = k
    ELSE 0

\* oneof.fieldsArray.map(field => obj.fields[field.name]!.name), Undefined where the
\* lookup is undefined (the ! then raises a TypeError)
OneofFieldNames(fields, oneof) ==
    MapSeq(oneof.fieldsArray,
           LAMBDA f : IF FieldAt(fields, fields[f].name) = 0 THEN Undefined
                      ELSE [name |-> fields[FieldAt(fields, fields[f].name)].name])

NamesThrow(fields, names) ==
    \/ \E i \in 1..Len(names) : names[i] = Undefined
    \/ \E i \in 1..Len(names) : FieldAt(fields, names[i].name) = 0

OneofThrows(fields, oneof) == NamesThrow(fields, OneofFieldNames(fields, oneof))

OneofTextOf(fields, oneof, oneofFieldNames) ==
    "\toneof: " \o Join(oneofFieldNames, ", ") \o "\n\t" \o oneof.name \o ": "
        \o Join(MapSeq(oneofFieldNames,
                       LAMBDA f : TypeMappingOr(fields[FieldAt(fields, f)].type)),
                " | ")

OneofText(fields, oneof) ==
    OneofTextOf(fields, oneof, MapSeq(OneofFieldNames(fields, oneof), LAMBDA n : n.name))

(***************************************************************************)
(* The body shared by lines 217-267 and 276-316: the two declarations of   *)
(* one protobuf.Type, with the registry and packageTypes it leaves behind. *)
(***************************************************************************)
MessageBody(name, lines) == name \o " {\n" \o Join(lines, "\n") \o "\n}"

\* m: the outcome of fields.map; lines: the field lines followed by the oneof lines
EmitTypeOf(obj, m, threw, lines) ==
    [threw |-> threw,
     obj |-> [obj EXCEPT !.fields = m.fields],
     addedGoogleTypes |-> m.addedGoogleTypes,
     packageTypes |-> m.packageTypes,
     decls |-> <<"type " \o MessageBody(obj.name, lines),
                 "input " \o MessageBody(obj.name \o "Input", lines)>>]

OneofsThrow(obj, fields) ==
    \E k \in 1..Len(obj.oneofsArray) : OneofThrows(fields, obj.oneofsArray[k])

EmitTypeWith(obj, m, threw) ==
    EmitTypeOf(obj, m, threw,
               IF threw THEN m.lines
               ELSE m.lines \o MapSeq(obj.oneofsArray, LAMBDA oneof : OneofText(m.fields, oneof)))

EmitTypeFrom(obj, m) == EmitTypeWith(obj, m, OneofsThrow(obj, m.fields))

EmitType(obj, addedGoogleTypes, packageTypes) ==
    EmitTypeFrom(obj,
                 FieldsMap(obj.fields, 1,
                           [addedGoogleTypes |-> addedGoogleTypes,
                            packageTypes |-> packageTypes, lines |-> <<>>, fields |-> <<>>]))

(***************************************************************************)
(* obj.nestedArray.forEach of the package branch (lines 216-273).          *)
(***************************************************************************)
\* e: the outcome of EmitType for a protobuf.Type child
PackageStepType(acc, e) ==
    [threw |-> e.threw,
     addedGoogleTypes |-> e.addedGoogleTypes,
     packageTypes |-> IF e.threw THEN e.packageTypes ELSE e.packageTypes \o e.decls,
     nestedArray |-> Append(acc.nestedArray, e.obj)]

\* the walk with a block pushed for a child that is a plain namespace
PackageStepNamespaceBlock(acc, nestedObj) ==
    IF acc.threw THEN [acc EXCEPT !.nestedArray = Append(@, nestedObj)]
    ELSE IF IsType(nestedObj) THEN
        PackageStepType(acc, EmitType(nestedObj, acc.addedGoogleTypes, acc.packageTypes))
    ELSE IF IsEnum(nestedObj) THEN
        [acc EXCEPT !.packageTypes = Append(@, protobufEnumToGraphQL(nestedObj)),
                    !.nestedArray = Append(@, nestedObj)]
    ELSE IF IsService(nestedObj) THEN
        [acc EXCEPT !.packageTypes = Append(@, protobufServiceToGraphQL(nestedObj)),
                    !.nestedArray = Append(@, nestedObj)]
    ELSE [acc EXCEPT !.packageTypes = Append(@, "type " \o nestedObj.name \o " {\n\n}"),
                     !.nestedArray = Append(@, nestedObj)]

PackageStep(acc, nestedObj) ==
    IF acc.threw THEN [acc EXCEPT !.nestedArray = Append(@, nestedObj)]
    ELSE IF IsType(nestedObj) THEN
        PackageStepType(acc, EmitType(nestedObj, acc.addedGoogleTypes, acc.packageTypes))
    ELSE IF IsEnum(nestedObj) THEN
        [acc EXCEPT !.packageTypes = Append(@, protobufEnumToGraphQL(nestedObj)),
                    !.nestedArray = Append(@, nestedObj)]
    ELSE IF IsService(nestedObj) THEN
        [acc EXCEPT !.packageTypes = Append(@, protobufServiceToGraphQL(nestedObj)),
                    !.nestedArray = Append(@, nestedObj)]
    ELSE [acc EXCEPT !.nestedArray = Append(@, nestedObj)]

RECURSIVE PackageWalk(_, _, _)
PackageWalk(nestedArray, i, acc) ==
    IF i > Len(nestedArray) THEN acc
    ELSE PackageWalk(nestedArray, i + 1, PackageStep(acc, nestedArray[i]))

\* const isPackage = obj.nestedArray.some(nestedObj => nestedObj instanceof protobuf.Namespace)
IsPackage(obj) == \E i \in 1..Len(obj.nestedArray) : IsNamespace(obj.nestedArray[i])

(***************************************************************************)
(* Object.values(nested).forEach (lines 198-319): one top-level obj.       *)
(* addedGoogleTypes and packageTypes are created anew for each obj.        *)
(***************************************************************************)
\* w: the outcome of the walk of package obj; line 275 pushes its packageTypes as one block
RootStepPackage(acc, obj, w) ==
    [threw |-> w.threw,
     types |-> IF w.threw THEN acc.types
               ELSE Append(acc.types, Join(w.packageTypes, "\n\n") \o "\n"),
     nested |-> Append(acc.nested, [obj EXCEPT !.nestedArray = w.nestedArray])]

\* e: the outcome of EmitType for the top-level message; lines 313-316 push its two
\* declarations, and the packageTypes it unshifted into are not pushed
RootStepType(acc, e) ==
    [threw |-> e.threw,
     types |-> IF e.threw THEN acc.types ELSE acc.types \o e.decls,
     nested |-> Append(acc.nested, e.obj)]

RootStep(acc, obj) ==
    IF acc.threw THEN [acc EXCEPT !.nested = Append(@, obj)]
    ELSE IF IsEnum(obj) THEN
        [acc EXCEPT !.types = Append(@, protobufEnumToGraphQL(obj)),
                    !.nested = Append(@, obj)]
    ELSE IF IsService(obj) THEN
        [acc EXCEPT !.types = Append(@, protobufServiceToGraphQL(obj)),
                    !.nested = Append(@, obj)]
    ELSE IF IsNamespace(obj) THEN
        IF IsPackage(obj) THEN
            IF obj.name = "google" THEN [acc EXCEPT !.nested = Append(@, obj)]
            ELSE RootStepPackage(acc, obj,
                    PackageWalk(obj.nestedArray, 1,
                                [threw |-> FALSE, addedGoogleTypes |-> {},
                                 packageTypes |-> <<>>, nestedArray |-> <<>>]))
        ELSE IF IsType(obj) THEN RootStepType(acc, EmitType(obj, {}, <<>>))
        ELSE [acc EXCEPT !.nested = Append(@, obj)]
    ELSE [acc EXCEPT !.nested = Append(@, obj)]

RECURSIVE RootWalk(_, _, _)
RootWalk(nested, i, acc) ==
    IF i > Len(nested) THEN acc ELSE RootWalk(nested, i + 1, RootStep(acc, nested[i]))

(***************************************************************************)
(* protobufToGraphQL(root): what the call does to the process (kind), the  *)
(* text it returns, and root as the call leaves it.                        *)
(*   "null"  - return null (line 188)                                      *)
(*   "throw" - TypeError: syntax is undefined (line 193) or a oneof member *)
(*             lookup is undefined (lines 246/254, 303/309)                *)
(*   "exit"  - process.exit(1) (line 195)                                  *)
(*   "text"  - return types.join("\n\n") + "\n" (line 321)                 *)
(***************************************************************************)
\* w: the outcome of Object.values(nested).forEach
Returned(r, w) ==
    [kind |-> IF w.threw THEN "throw" ELSE "text",
     text |-> IF w.threw THEN "" ELSE Join(w.types, "\n\n") \o "\n",
     root |-> [r EXCEPT !.nested = [values |-> w.nested]]]

protobufToGraphQL(r) ==
    IF r.nested = Undefined THEN [kind |-> "null", text |-> "", root |-> r]
    ELSE IF r.options = Undefined THEN [kind |-> "throw", text |-> "", root |-> r]
    ELSE IF ~EndsWith(r.options.syntax, "3") THEN [kind |-> "exit", text |-> "", root |-> r]
    ELSE Returned(r, RootWalk(r.nested.values, 1,
                              [threw |-> FALSE, types |-> <<>>, nested |-> <<>>]))

(***************************************************************************)
(* Descriptor trees the conversion is applied to.  A field is stored under *)
(* key and starts with name = key; siblings have pairwise distinct names   *)
(* (protobufjs keeps nested, fields and methods in objects keyed by name). *)
(***************************************************************************)
Field(key, type, map, repeated) ==
    [key |-> key, name |-> key, type |-> type, map |-> map, repeated |-> repeated]

TypeNode(name, fields, oneofsArray, nestedArray) ==
    [kind |-> "Type", name |-> name, fields |-> fields, oneofsArray |-> oneofsArray,
     nestedArray |-> nestedArray]

EnumNode(name, values) == [kind |-> "Enum", name |-> name, values |-> values]

ServiceNode(name, methods) == [kind |-> "Service", name |-> name, methods |-> methods]

NamespaceNode(name, nestedArray) ==
    [kind |-> "Namespace", name |-> name, nestedArray |-> nestedArray]

Method(name) == [name |-> name, requestType |-> "UserRequest", responseType |-> "User"]

Root(syntax, values) == [options |-> [syntax |-> syntax], nested |-> [values |-> values]]

DistinctBy(arr, Key(_)) ==
    \A i, j \in 1..Len(arr) : i # j => Key(arr[i]) # Key(arr[j])

SeqsUpTo(S, lo, hi, Key(_)) ==
    UNION {{arr \in [1..n -> S] : DistinctBy(arr, Key)} : n \in lo..hi}

\* fields: every combination of declared type and flags under the name "id", and
\* every declared type under the names with leading dots
FieldNames == {"id", ".id", "..id"}

FieldTypes == {"string", "google.protobuf.StringValue", "Address"}

FieldPool ==
    {Field("id", t, m, r) : t \in FieldTypes, m \in BOOLEAN, r \in BOOLEAN}
    \cup {Field(k, t, FALSE, FALSE) : k \in FieldNames, t \in FieldTypes}

OneofChoices(fields) ==
    {<<>>, <<[name |-> "choice", fieldsArray |-> [i \in 1..Len(fields) |-> i]]>>}

FieldTrees ==
    UNION {UNION {{Root("proto3", <<TypeNode("User", fs, oo, <<>>)>>),
                   Root("proto3", <<NamespaceNode("pkg", <<TypeNode("User", fs, oo, <<>>)>>)>>)}
                  : oo \in OneofChoices(fs)}
           : fs \in SeqsUpTo(FieldPool, 1, MaxFields, LAMBDA f : f.key)}

\* services: methods with every classification of name
MethodNames ==
    {"GetUser", "ListUsers", "CreateUser", "UpdateUser", "DeleteUser", "ArchiveUser",
     "getUser", "Ge"}

MethodSeqs == SeqsUpTo({Method(n) : n \in MethodNames}, 0, MaxMethods, LAMBDA m : m.name)

ServiceTrees ==
    UNION {{Root("proto3", <<ServiceNode("Api", ms)>>),
            Root("proto3", <<NamespaceNode("pkg", <<ServiceNode("Api", ms)>>)>>),
            Root("proto3", <<ServiceNode("Api", ms),
                             ServiceNode("Admin", <<Method("GetUser"), Method("ArchiveUser")>>)>>)}
           : ms \in MethodSeqs}

\* declarations: messages, enums, services and packages side by side
WrapperField == Field("name", "google.protobuf.StringValue", FALSE, FALSE)

LeafType(name) == TypeNode(name, <<WrapperField>>, <<>>, <<>>)

ColorValues == <<"RED", "GREEN">>

ChildPool ==
    {LeafType("Account"), EnumNode("status", ColorValues),
     NamespaceNode("v1", <<LeafType("Deep")>>)}

TopPool ==
    {TypeNode("User", <<WrapperField>>, <<>>, inner) :
        inner \in {<<>>, <<EnumNode("Kind", ColorValues)>>, <<LeafType("Inner")>>}}
    \cup {LeafType("user")}
    \cup {EnumNode(n, ColorValues) : n \in {"Color", "color"}}
    \cup {ServiceNode(n, <<Method("GetUser"), Method("DeleteUser")>>) : n \in {"Api", "Admin"}}
    \cup {NamespaceNode("pkg", c) : c \in SeqsUpTo(ChildPool, 1, MaxNested, LAMBDA d : d.name)}
    \cup {NamespaceNode("lib", <<LeafType("Account")>>),
          NamespaceNode("google",
              <<NamespaceNode("protobuf",
                  <<TypeNode("StringValue", <<Field("value", "string", FALSE, FALSE)>>,
                             <<>>, <<>>)>>)>>)}

DeclTrees == {Root("proto3", ds) : ds \in SeqsUpTo(TopPool, 1, MaxTop, LAMBDA d : d.name)}

\* roots that fail the checks ahead of the walk (lines 187-196)
EdgeTrees ==
    {[options |-> o, nested |-> n] :
        o \in {Undefined, [syntax |-> "proto2"], [syntax |-> "proto3"]},
        n \in {Undefined, [values |-> <<LeafType("User")>>]}}

Trees == FieldTrees \cup ServiceTrees \cup DeclTrees \cup EdgeTrees

(***************************************************************************)
(* Conversion of one tree, called up to MaxCalls times on the same object. *)
(***************************************************************************)
Init ==
    /\ root \in Trees
    /\ results = <<>>
    /\ files = <<>>
    /\ pc = <<>>
    /\ dirExists = FALSE
    /\ written = {}
    /\ run = "idle"

ConvertTo(r) ==
    /\ results' = Append(results, [kind |-> r.kind, text |-> r.text])
    /\ root' = r.root

Convert ==
    /\ run = "idle"
    /\ Len(results) < MaxCalls
    /\ \A i \in 1..Len(results) : results[i].kind # "exit"
    /\ ConvertTo(protobufToGraphQL(root))
    /\ UNCHANGED <<files, pc, dirExists, written, run>>

Next == Convert

Spec == Init /\ [][Next]_vars

(***************************************************************************)
(* proto2gql (lines 324-366) and its .catch (lines 38-43).  Every file's   *)
(* callback is started by protoFiles.map and is suspended at each await:   *)
(*   "load" root.load, "stat" fs.stat, "mkdir" fs.mkdir, "write"           *)
(*   fs.writeFile, "done" returned.                                        *)
(* A rejected callback rejects Promise.all, and the .catch exits.          *)
(***************************************************************************)
outputDir == "schemas"

\* path.basename(file, ext)
Basename(file, ext) ==
    LET slashes == {i \in 1..Len(file) : SubSeq(file, i, i) = "/"}
        base == IF slashes = {} THEN file ELSE SubSeq(file, Max(slashes) + 1, Len(file))
    IN  IF EndsWith(base, ext) /\ Len(base) > Len(ext)
        THEN SubSeq(base, 1, Len(base) - Len(ext))
        ELSE base

\* path.join(outputDir, path.basename(file, ".proto") + graphqlExtension)
OutputPath(file) == outputDir \o "/" \o Basename(file, ".proto") \o graphqlExtension

\* what loadProtobufFiles may return: the second a.proto needs the recursive flag
ProtoPaths == <<"protos/a.proto", "protos/b.proto", "protos/sub/a.proto">>

RunTrees ==
    {Root("proto3", <<LeafType("User")>>),
     Root("proto2", <<LeafType("User")>>),
     [options |-> [syntax |-> "proto2"], nested |-> Undefined],
     [options |-> Undefined, nested |-> [values |-> <<LeafType("User")>>]],
     Root("proto3", <<NamespaceNode("pkg", <<NamespaceNode("v1", <<LeafType("Deep")>>)>>)>>)}

\* the files of a run, in the order of ProtoPaths
FileLists ==
    UNION {{[k \in 1..Len(ps) |-> [file |-> ps[k], root |-> ts[k]]] : ts \in [1..Len(ps) -> RunTrees]}
           : ps \in {SelectSeq(ProtoPaths, LAMBDA f : f \in S) :
                        S \in {T \in SUBSET {ProtoPaths[i] : i \in 1..Len(ProtoPaths)} :
                                Cardinality(T) <= MaxFiles}}}

InitRun ==
    /\ root = Undefined
    /\ results = <<>>
    /\ files \in FileLists
    /\ pc = [i \in 1..Len(files) |-> "load"]
    /\ dirExists \in BOOLEAN
    /\ written = {}
    /\ run = "start"

\* lines 325-337: no file exits; otherwise every callback runs up to its first await
Start ==
    /\ run = "start"
    /\ run' = IF Len(files) = 0 THEN "exit1" ELSE "running"
    /\ UNCHANGED <<root, results, files, pc, dirExists, written>>

\* lines 342-352: r is what protobufToGraphQL(root) did, schema its trimmed text
Loaded(i, r, schema) ==
    /\ files' = [files EXCEPT ![i].root = r.root]
    /\ IF r.kind \in {"exit", "throw"}
       THEN run' = "exit1" /\ pc' = pc
       ELSE /\ run' = run
            /\ pc' = [pc EXCEPT ![i] = IF r.kind = "null" \/ schema = ""
                                       THEN "done" ELSE "stat"]

LoadedWith(i, r) == Loaded(i, r, Trim(r.text))

\* lines 340-352: root.load resolved; conversion, and fs.stat when there is a schema
LoadDone(i) ==
    /\ run = "running"
    /\ pc[i] = "load"
    /\ LoadedWith(i, protobufToGraphQL(files[i].root))
    /\ UNCHANGED <<root, results, dirExists, written>>

\* lines 352-357: fs.stat settled; mkdir when it rejected, else writeFile
StatDone(i) ==
    /\ run = "running"
    /\ pc[i] = "stat"
    /\ pc' = [pc EXCEPT ![i] = IF dirExists THEN "write" ELSE "mkdir"]
    /\ UNCHANGED <<root, results, files, dirExists, written, run>>

\* lines 354-357: fs.mkdir settled; EEXIST rejects the callback
MkdirDone(i) ==
    /\ run = "running"
    /\ pc[i] = "mkdir"
    /\ IF dirExists
       THEN run' = "exit1" /\ UNCHANGED <<pc, dirExists>>
       ELSE /\ dirExists' = TRUE
            /\ pc' = [pc EXCEPT ![i] = "write"]
            /\ run' = run
    /\ UNCHANGED <<root, results, files, written>>

\* line 357: fs.writeFile settled; the file at outputPath now holds this schema
WriteDone(i) ==
    /\ run = "running"
    /\ pc[i] = "write"
    /\ written' = {w \in written : w.path # OutputPath(files[i].file)}
                    \cup {[path |-> OutputPath(files[i].file), from |-> i]}
    /\ pc' = [pc EXCEPT ![i] = "done"]
    /\ UNCHANGED <<root, results, files, dirExists, run>>

\* lines 359-365: Promise.all fulfilled
Finish ==
    /\ run = "running"
    /\ \A i \in 1..Len(files) : pc[i] = "done"
    /\ run' = "converted"
    /\ UNCHANGED <<root, results, files, pc, dirExists, written>>

NextRun ==
    \/ Start
    \/ \E i \in 1..Len(files) : LoadDone(i)
    \/ \E i \in 1..Len(files) : StatDone(i)
    \/ \E i \in 1..Len(files) : MkdirDone(i)
    \/ \E i \in 1..Len(files) : WriteDone(i)
    \/ Finish

SpecRun == InitRun /\ [][NextRun]_vars

(***************************************************************************)
(* Reading a returned document: its lines, the declarations (lines opening *)
(* with `type`, `input` or `enum`) and the declaration a line lies under.  *)
(***************************************************************************)
\* the lines of a text: what lies before, between and after its "\n" characters
LinesAt(text, nl) ==
    [k \in 1..Len(nl) + 1 |->
        SubSeq(text,
               IF k = 1 THEN 1 ELSE nl[k - 1] + 1,
               IF k = Len(nl) + 1 THEN Len(text) ELSE nl[k] - 1)]

Lines(text) ==
    LinesAt(text, SelectSeq([i \in 1..Len(text) |-> i], LAMBDA i : SubSeq(text, i, i) = "\n"))

Keywords == {"type ", "input ", "enum "}

IsHeader(line) == \E kw \in Keywords : StartsWith(line, kw)

\* position of the first occurrence of the one-character string c at or after i (Len(s) + 1 if none)
IndexOf(s, c, i) ==
    LET hits == {j \in i..Len(s) : SubSeq(s, j, j) = c}
    IN  IF hits = {} THEN Len(s) + 1 ELSE Min(hits)

\* the name a header line declares: the word after the keyword
HeaderName(line) ==
    LET from == IndexOf(line, " ", 1) + 1
    IN  SubSeq(line, from, IndexOf(line, " ", from) - 1)

HeaderIndexes(L) == {k \in 1..Len(L) : IsHeader(L[k])}

\* every name declared in the document, with the number of its declarations
DeclCount(L, name) == Cardinality({k \in HeaderIndexes(L) : HeaderName(L[k]) = name})

DeclaredNames(L) == {HeaderName(L[k]) : k \in HeaderIndexes(L)}

LineCount(L, line) == Cardinality({k \in 1..Len(L) : L[k] = line})

\* the header a line lies under (0 when none precedes it)
HeaderOf(L, k) ==
    IF \E h \in HeaderIndexes(L) : h <= k
    THEN CHOOSE h \in HeaderIndexes(L) : h <= k /\ \A g \in HeaderIndexes(L) : g <= k => g <= h
    ELSE 0

\* the text after ": " of a field line
TypeOfLine(line) == SubSeq(line, IndexOf(line, ":", 1) + 2, Len(line))

\* the lines of the block a header opens, up to its closing "}"
RECURSIVE BodyFrom(_, _, _)
BodyFrom(L, k, acc) ==
    IF k > Len(L) \/ L[k] = "}" THEN acc ELSE BodyFrom(L, k + 1, Append(acc, L[k]))

BodyOf(L, h) == BodyFrom(L, h + 1, <<>>)

(***************************************************************************)
(* Reading a tree: where declarations sit.                                 *)
(***************************************************************************)
TopLevel == IF root.nested = Undefined THEN <<>> ELSE root.nested.values

\* the packages whose children the root scan walks
WalkedPackages ==
    {i \in 1..Len(TopLevel) :
        /\ TopLevel[i].kind \in {"Namespace", "Type"}
        /\ IsPackage(TopLevel[i])
        /\ TopLevel[i].name # "google"}

\* declarations met by the root scan and by the walk of a package, as paths
ScannedPaths ==
    {<<i>> : i \in 1..Len(TopLevel)}
    \cup UNION {{<<i, j>> : j \in 1..Len(TopLevel[i].nestedArray)} : i \in WalkedPackages}

\* every declaration of the tree, at any depth, as paths from the root
RECURSIVE PathsUnder(_, _)
PathsUnder(node, path) ==
    {path} \cup
    (IF node.kind \in {"Namespace", "Type"}
     THEN UNION {PathsUnder(node.nestedArray[j], Append(path, j)) :
                    j \in 1..Len(node.nestedArray)}
     ELSE {})

AllPaths == UNION {PathsUnder(TopLevel[i], <<i>>) : i \in 1..Len(TopLevel)}

RECURSIVE NodeUnder(_, _, _)
NodeUnder(arr, path, d) ==
    IF d = Len(path) THEN arr[path[d]]
    ELSE NodeUnder(arr[path[d]].nestedArray, path, d + 1)

Node(path) == NodeUnder(TopLevel, path, 1)

\* the first call returned a document
Converted == Len(results) >= 1 /\ results[1].kind = "text"

Doc == Lines(results[1].text)

(***************************************************************************)
(* What the claims speak of.                                               *)
(***************************************************************************)
UpperCaseLetters ==
    {"A", "B", "C", "D", "E", "F", "G", "H", "I", "J", "K", "L", "M",
     "N", "O", "P", "Q", "R", "S", "T", "U", "V", "W", "X", "Y", "Z"}

BeginsUpperCase(name) == Len(name) > 0 /\ SubSeq(name, 1, 1) \in UpperCaseLetters

\* messages of the scan whose `type <Name> {` header stands exactly once in the document
LocatedMessages ==
    {p \in ScannedPaths :
        Node(p).kind = "Type" /\ LineCount(Doc, "type " \o Node(p).name \o " {") = 1}

TypeHeaderAt(p) == CHOOSE h \in 1..Len(Doc) : Doc[h] = "type " \o Node(p).name \o " {"

\* the GraphQL type emitted for field k of located message p
EmittedType(p, k) == TypeOfLine(Doc[TypeHeaderAt(p) + k])

\* the type the mapping rules call for
ExpectedType(t) ==
    IF t \in googleTypeKeys THEN googleTypeMapping(t).typeName
    ELSE IF t \in typeMappingKeys THEN typeMapping(t)
    ELSE t

HasBracket(s) == IndexOf(s, "[", 1) <= Len(s) \/ IndexOf(s, "]", 1) <= Len(s)

ScannedServices == {p \in ScannedPaths : Node(p).kind = "Service"}

MethodsOfScan ==
    UNION {{<<p, k>> : k \in 1..Len(Node(p).methods)} : p \in ScannedServices}

MethodAt(pk) == Node(pk[1]).methods[pk[2]]

NamedQuery(name) == StartsWith(name, "Get") \/ StartsWith(name, "List")

\* the well-known type keys some field of the tree declares as its type
ReferencedGoogleKeys ==
    UNION {{Node(p).fields[k].type : k \in 1..Len(Node(p).fields)} \cap googleTypeKeys :
            p \in {q \in AllPaths : Node(q).kind = "Type"}}

\* every line equal to the method's field line lies under `block`, and there are as
\* many such lines as methods of the scan with that field line
MethodPlacedIn(L, pk, line, block) ==
    /\ \A k \in 1..Len(L) : L[k] = line => HeaderOf(L, k) # 0 /\ L[HeaderOf(L, k)] = block
    /\ LineCount(L, line)
            = Cardinality({qk \in MethodsOfScan : gqlFieldOf(MethodAt(qk)) = line})

ServicesClassifiedIn(L) ==
    /\ \A pk \in MethodsOfScan :
        MethodPlacedIn(L, pk, gqlFieldOf(MethodAt(pk)),
                       IF NamedQuery(MethodAt(pk).name) THEN "type Query {"
                       ELSE "type Mutation {")
    /\ LineCount(L, "type Query {")
            = Cardinality({p \in ScannedServices :
                    \E k \in 1..Len(Node(p).methods) : NamedQuery(Node(p).methods[k].name)})
    /\ LineCount(L, "type Mutation {")
            = Cardinality({p \in ScannedServices :
                    \E k \in 1..Len(Node(p).methods) : ~NamedQuery(Node(p).methods[k].name)})

UserDeclarations == {p \in AllPaths : Node(p).kind \in {"Type", "Enum", "Service"}}

DistinctUserNames ==
    \A p, q \in UserDeclarations : p # q => Node(p).name # Node(q).name

\* the names the emitters declare for the messages and enums of the scan, for services
\* and for well-known types
EmitterNames ==
    UNION {{Node(q).name, Node(q).name \o "Input"} :
            q \in {p \in ScannedPaths : Node(p).kind = "Type"}}
    \cup {Node(q).name : q \in {p \in ScannedPaths : Node(p).kind = "Enum"}}
    \cup {"Query", "Mutation"}
    \cup {googleTypeMapping(t).typeName : t \in googleTypeKeys}

NamespacesNotEmittedIn(L) ==
    /\ \A p \in ScannedPaths :
        (Node(p).kind = "Namespace" /\ Node(p).name \notin EmitterNames) =>
            DeclCount(L, Node(p).name) = 0
    /\ \A p \in ScannedPaths :
        Node(p).kind = "Enum" => LineCount(L, "enum " \o Node(p).name \o " {") >= 1

NotProto3(r) == r.options # Undefined /\ ~EndsWith(r.options.syntax, "3")

ConvertsToSchema(r) ==
    /\ r.options # Undefined /\ EndsWith(r.options.syntax, "3")
    /\ protobufToGraphQL(r).kind = "text"
    /\ Trim(protobufToGraphQL(r).text) # ""

(***************************************************************************)
(* C1: every field that is neither map nor repeated, in every emitted      *)
(* message (at the root or in a package, first or later reference), is     *)
(* emitted with the typeMapping value for a scalar keyword, the            *)
(* synthesized typeName for a googleTypeMapping key, and the declared type *)
(* name otherwise.                                                         *)
(***************************************************************************)
C1_FieldTypeMapping ==
    Converted =>
        \A p \in LocatedMessages : \A k \in 1..Len(Node(p).fields) :
            (~Node(p).fields[k].map /\ ~Node(p).fields[k].repeated) =>
                EmittedType(p, k) = ExpectedType(Node(p).fields[k].type)

(***************************************************************************)
(* C2: for every well-known type key referenced by at least one field      *)
(* anywhere in the tree, the returned text holds exactly one               *)
(* `type <Name> <body>` declaration: never zero, never two or more.        *)
(***************************************************************************)
C2_OneWellKnownDeclaration ==
    Converted =>
        \A t \in ReferencedGoogleKeys :
            Cardinality({h \in 1..Len(Doc) :
                StartsWith(Doc[h], "type " \o googleTypeMapping(t).typeName \o " {")}) = 1

(***************************************************************************)
(* C3: every method of every service is placed in exactly one block, under *)
(* `type Query` iff its name starts with Get or List and under             *)
(* `type Mutation` otherwise; a service contributes a `type Query` /       *)
(* `type Mutation` block iff at least one of its methods was classified    *)
(* into it.                                                                *)
(***************************************************************************)
C3_ServiceClassification == (Converted /\ ScannedServices # {}) => ServicesClassifiedIn(Doc)

\* a service with a Get method and a method of unrecognized prefix was converted
C3_Witness ==
    /\ Converted
    /\ \E p \in ScannedServices :
        /\ \E k \in 1..Len(Node(p).methods) : Node(p).methods[k].name = "GetUser"
        /\ \E k \in 1..Len(Node(p).methods) : Node(p).methods[k].name = "ArchiveUser"
    /\ LineCount(Doc, "type Query {") >= 1
    /\ LineCount(Doc, "type Mutation {") >= 1
    /\ \E k \in 1..Len(Doc) :
        /\ Doc[k] = gqlFieldOf(Method("ArchiveUser"))
        /\ Doc[HeaderOf(Doc, k)] = "type Mutation {"

(***************************************************************************)
(* C4: a map field is emitted with type exactly JSON, whatever its         *)
(* repeated flag or declared type; a repeated non-map field is emitted     *)
(* with its type in exactly one pair of brackets.                          *)
(***************************************************************************)
C4_MapAndRepeated ==
    Converted =>
        \A p \in LocatedMessages : \A k \in 1..Len(Node(p).fields) :
            /\ Node(p).fields[k].map => EmittedType(p, k) = "JSON"
            /\ (Node(p).fields[k].repeated /\ ~Node(p).fields[k].map) =>
                    /\ StartsWith(EmittedType(p, k), "[") /\ EndsWith(EmittedType(p, k), "]")
                    /\ Len(EmittedType(p, k)) > 2
                    /\ ~HasBracket(SubSeq(EmittedType(p, k), 2, Len(EmittedType(p, k)) - 1))

(***************************************************************************)
(* C5: in a run with at least one input whose syntax option does not end   *)
(* in "3", the run aborts and no output file has been written at any       *)
(* point, under every interleaving, whether or not that root has nested    *)
(* declarations.                                                           *)
(***************************************************************************)
C5_Proto2AbortsBeforeOutput ==
    (\E i \in 1..Len(files) : NotProto3(files[i].root)) =>
        /\ written = {}
        /\ run # "converted"

(***************************************************************************)
(* C6: a run over N >= 2 proto3 files that each convert to a non-empty     *)
(* schema ends without error, under every interleaving and whether or not  *)
(* the output directory exists at the start, with N distinct output files. *)
(***************************************************************************)
C6_OneOutputPerInput ==
    (Len(files) >= 2 /\ \A i \in 1..Len(files) : ConvertsToSchema(files[i].root)) =>
        /\ run # "exit1"
        /\ run = "converted" => Cardinality({w.path : w \in written}) = Len(files)

(***************************************************************************)
(* C7: when the declared message, enum and service names of the tree are   *)
(* pairwise distinct, every name declared after `type`, `input` or `enum`  *)
(* in the returned text is declared at most once.                          *)
(***************************************************************************)
C7_UniqueTypeNames ==
    (Converted /\ DistinctUserNames) =>
        \A name \in DeclaredNames(Doc) : DeclCount(Doc, name) <= 1

(***************************************************************************)
(* C8: two calls in sequence on the same tree object return byte-identical *)
(* text.                                                                   *)
(***************************************************************************)
C8_Idempotent ==
    (Len(results) >= 2 /\ results[1].kind = "text") => results[2] = results[1]

C10_RootMessagePair ==
    Converted =>
        \A i \in 1..Len(TopLevel) :
            TopLevel[i].kind = "Type" =>
                /\ LineCount(Doc, "type " \o TopLevel[i].name \o " {") >= 1
                /\ LineCount(Doc, "input " \o TopLevel[i].name \o "Input {") >= 1
                /\ \A a, b \in 1..Len(Doc) :
                    (/\ Doc[a] = "type " \o TopLevel[i].name \o " {"
                     /\ Doc[b] = "input " \o TopLevel[i].name \o "Input {")
                        => BodyOf(Doc, a) = BodyOf(Doc, b)

====
